---------------------------- MODULE Spec2Model ----------------------------
(* Model of the translate() entry point of the OpenAI-compatible translation *)
(* plugin, in its two variants:                                               *)
(*   "main"  src/main.js           (window.fetch, chunked stream reader)      *)
(*   "part"  src/unnamed/part_000  (http.fetch, whole SSE text at once)       *)
(*                                                                            *)
(* Strings are sequences of one-character strings, so that trim, split,       *)
(* startsWith, substring and the tag-removal regular expressions are          *)
(* computed character by character.  A JSON stream payload is abstracted to   *)
(* the bracketed form {c1..cn}, which stands for                              *)
(*   {"choices":[{"delta":{"content":"c1..cn"}}]}                             *)
(* ({} is an object without delta content); every other payload makes        *)
(* JSON.parse throw.                                                          *)
EXTENDS Integers, Sequences, FiniteSets, TLC

(* ------------------------------------------------------------------------ *)
(* String helpers (JavaScript String methods on character sequences)         *)
(* ------------------------------------------------------------------------ *)

\* Characters removed by String.prototype.trim and matched by \s.
WhiteSpace == {" ", "\n", "\r", "\t"}

RECURSIVE TrimStart(_)
TrimStart(s) ==
    IF s = <<>> THEN <<>>
    ELSE IF s[1] \in WhiteSpace THEN TrimStart(Tail(s)) ELSE s

RECURSIVE TrimEnd(_)
TrimEnd(s) ==
    IF s = <<>> THEN <<>>
    ELSE IF s[Len(s)] \in WhiteSpace THEN TrimEnd(SubSeq(s, 1, Len(s) - 1)) ELSE s

\* s.trim()
Trim(s) == TrimEnd(TrimStart(s))

\* s.substring(n)
Substring(s, n) == SubSeq(s, n + 1, Len(s))

\* true iff p occurs in s at (1-based) position i
StartsWithAt(s, p, i) ==
    /\ i >= 1
    /\ i + Len(p) - 1 <= Len(s)
    /\ SubSeq(s, i, i + Len(p) - 1) = p

\* s.startsWith(p)
StartsWith(s, p) == StartsWithAt(s, p, 1)

\* least position >= i at which p occurs in s, 0 when there is none
RECURSIVE IndexOfFrom(_, _, _)
IndexOfFrom(s, p, i) ==
    IF i + Len(p) - 1 > Len(s) THEN 0
    ELSE IF StartsWithAt(s, p, i) THEN i
    ELSE IndexOfFrom(s, p, i + 1)

\* s.replace(a, b) with string arguments: the first occurrence only
ReplaceFirst(s, a, b) ==
    LET i == IndexOfFrom(s, a, 1)
    IN  IF i = 0 THEN s
        ELSE SubSeq(s, 1, i - 1) \o b \o SubSeq(s, i + Len(a), Len(s))

\* s.split(sep) for a separator that is one of the characters of seps:
\* the pieces between separators, empty pieces included
RECURSIVE SplitAcc(_, _, _)
SplitAcc(s, seps, cur) ==
    IF s = <<>> THEN <<cur>>
    ELSE IF s[1] \in seps THEN <<cur>> \o SplitAcc(Tail(s), seps, <<>>)
    ELSE SplitAcc(Tail(s), seps, Append(cur, s[1]))

Split(s, seps) == SplitAcc(s, seps, <<>>)

(* ------------------------------------------------------------------------ *)
(* Tag removal                                                               *)
(* ------------------------------------------------------------------------ *)

\* config.removeTag || '<think>,<help>'
DefaultRemoveTag ==
    <<"<","t","h","i","n","k",">", ",", "<","h","e","l","p",">">>

RemoveTagString(cfgRemoveTag) ==
    IF cfgRemoveTag = <<>> THEN DefaultRemoveTag ELSE cfgRemoveTag

\* removeTagString.split(',').map(tag => tag.trim()).filter(tag => tag.length > 0)
RECURSIVE TrimNonEmpty(_)
TrimNonEmpty(pieces) ==
    IF pieces = <<>> THEN <<>>
    ELSE LET t == Trim(pieces[1])
         IN  (IF Len(t) > 0 THEN <<t>> ELSE <<>>) \o TrimNonEmpty(Tail(pieces))

tagsToRemove(removeTagString) == TrimNonEmpty(Split(removeTagString, {","}))

\* first position >= i that is not white space (greedy \s*)
RECURSIVE SkipWhiteSpace(_, _)
SkipWhiteSpace(s, i) ==
    IF i <= Len(s) /\ s[i] \in WhiteSpace THEN SkipWhiteSpace(s, i + 1) ELSE i

\* main.js: new RegExp(`${escapedTag}(?:\\s*\\/>|>(.*?)<\\/${escapedTag.substring(1)}>)`, 'gs')
\* tried at position i; the position after the match, 0 when there is no match.
\* The escaped tag matches the tag literally; the tag keeps its own '>'.
MatchEndMain(text, tag, i) ==
    IF ~StartsWithAt(text, tag, i) THEN 0
    ELSE LET k       == i + Len(tag)
             kSelf   == SkipWhiteSpace(text, k)
             closing == <<"<", "/">> \o Substring(tag, 1) \o <<">">>
             j       == IF StartsWithAt(text, <<">">>, k)
                        THEN IndexOfFrom(text, closing, k + 1) ELSE 0
         IN  IF StartsWithAt(text, <<"/", ">">>, kSelf) THEN kSelf + 2
             ELSE IF j # 0 THEN j + Len(closing)
             ELSE 0

\* part_000: new RegExp(`${openingTag}(.*?)${closingTag}|${selfClosingTag}`, 'gs')
MatchEndPart(text, tag, i) ==
    LET openingTag     == tag
        closingTag     == ReplaceFirst(openingTag, <<"<">>, <<"<", "/">>)
        selfClosingTag == ReplaceFirst(openingTag, <<">">>, <<"/", ">">>)
        j == IF StartsWithAt(text, openingTag, i)
             THEN IndexOfFrom(text, closingTag, i + Len(openingTag)) ELSE 0
    IN  IF j # 0 THEN j + Len(closingTag)
        ELSE IF StartsWithAt(text, selfClosingTag, i) THEN i + Len(selfClosingTag)
        ELSE 0

MatchEnd(v, text, tag, i) ==
    IF v = "main" THEN MatchEndMain(text, tag, i) ELSE MatchEndPart(text, tag, i)

\* processedText.replace(regex, '') with the g flag: leftmost matches,
\* scanning on from the end of each match
RECURSIVE ReplaceAllFrom(_, _, _, _)
ReplaceAllFrom(v, text, tag, i) ==
    IF i > Len(text) THEN <<>>
    ELSE LET e == MatchEnd(v, text, tag, i)
         IN  IF e = 0 THEN <<text[i]>> \o ReplaceAllFrom(v, text, tag, i + 1)
             ELSE ReplaceAllFrom(v, text, tag, e)

\* tagsToRemove.forEach(tag => { processedText = processedText.replace(regex, '') })
RECURSIVE RemoveEachTag(_, _, _)
RemoveEachTag(v, text, tags) ==
    IF tags = <<>> THEN text
    ELSE RemoveEachTag(v, ReplaceAllFrom(v, text, tags[1], 1), Tail(tags))

\* applyRemoveTag (main.js) / applyTagRemoval (part_000)
applyRemoveTag(v, removeTagString, inputText) ==
    IF inputText = <<>> THEN inputText
    ELSE Trim(RemoveEachTag(v, inputText, tagsToRemove(removeTagString)))

(* ------------------------------------------------------------------------ *)
(* Stream line decoding                                                      *)
(* ------------------------------------------------------------------------ *)

\* line.startsWith('data: ') in main.js
DataPrefixMain == <<"d", "a", "t", "a", ":", " ">>
\* trimmedLine.startsWith('data:') in part_000
DataPrefixPart == <<"d", "a", "t", "a", ":">>
DoneToken == <<"[", "D", "O", "N", "E", "]">>
\* the '...' main.js appends to intermediate pushes
Ellipsis == <<".", ".", ".">>

\* JSON.parse(payload) returns (does not throw)
JsonParses(p) ==
    /\ Len(p) >= 2
    /\ p[1] = "{"
    /\ p[Len(p)] = "}"
    /\ \A i \in 2..(Len(p) - 1) : p[i] \notin {"{", "}"}

\* parsed.choices[0].delta.content of a payload that parses
DeltaContent(p) == SubSeq(p, 2, Len(p) - 1)

\* What the body of the line loop does with one line:
\*   "ignored"      the line is not a data line (or is blank)
\*   "done"         the payload is [DONE]
\*   "parse_error"  JSON.parse throws
\*   "nodelta"      the payload parses and has no (or empty) delta content
\*   "delta"        the payload carries delta content
PayloadOutcome(payload) ==
    IF payload = DoneToken THEN [kind |-> "done", content |-> <<>>]
    ELSE IF ~JsonParses(payload) THEN [kind |-> "parse_error", content |-> <<>>]
    ELSE IF DeltaContent(payload) = <<>> THEN [kind |-> "nodelta", content |-> <<>>]
    ELSE [kind |-> "delta", content |-> DeltaContent(payload)]

LineOutcomeMain(line) ==
    IF StartsWith(line, DataPrefixMain)
    THEN PayloadOutcome(Trim(Substring(line, 6)))
    ELSE [kind |-> "ignored", content |-> <<>>]

LineOutcomePart(line) ==
    LET trimmedLine == Trim(line)
    IN  IF trimmedLine = <<>> THEN [kind |-> "ignored", content |-> <<>>]
        ELSE IF StartsWith(trimmedLine, DataPrefixPart)
        THEN PayloadOutcome(Trim(Substring(trimmedLine, 5)))
        ELSE [kind |-> "ignored", content |-> <<>>]

LineOutcome(v, line) ==
    IF v = "main" THEN LineOutcomeMain(line) ELSE LineOutcomePart(line)

\* The loop state: the accumulated text, the callback invocations so far,
\* whether the loop was left by break, how many payloads reached JSON.parse.
LoopState(full, calls, decoded) ==
    [full |-> full, calls |-> calls, stop |-> FALSE, decoded |-> decoded]

\* if (dataContent === '[DONE]') { }      in main.js: nothing happens
\* if (jsonData === '[DONE]') { break; }  in part_000
OnDone(v, st) == IF v = "main" THEN st ELSE [st EXCEPT !.stop = TRUE]

AfterParseErrorAbort(st) == [st EXCEPT !.stop = TRUE, !.decoded = @ + 1]
\* catch (e) { console.error(...) }: the loop goes on with the next line
AfterParseError(st) == [st EXCEPT !.decoded = @ + 1]

\* setResult(applyRemoveTag(fullContent) + '...')   main.js
\* setResult(applyTagRemoval(accumulatedResult))    part_000
IntermediatePush(v, rts, full) ==
    IF v = "main" THEN applyRemoveTag(v, rts, full) \o Ellipsis
    ELSE applyRemoveTag(v, rts, full)

OnDelta(v, rts, hasCb, st, content) ==
    LET full == st.full \o content
    IN  [st EXCEPT !.full = full,
                   !.decoded = @ + 1,
                   !.calls = IF hasCb THEN Append(@, IntermediatePush(v, rts, full))
                             ELSE @]

LineStep(v, rts, hasCb, st, line) ==
    LET o == LineOutcome(v, line)
    IN  IF st.stop THEN st
        ELSE IF o.kind = "ignored" THEN st
        ELSE IF o.kind = "done" THEN OnDone(v, st)
        ELSE IF o.kind = "parse_error" THEN AfterParseError(st)
        ELSE IF o.kind = "nodelta" THEN [st EXCEPT !.decoded = @ + 1]
        ELSE OnDelta(v, rts, hasCb, st, o.content)

\* for (const line of lines) { ... }
RECURSIVE ProcessLines(_, _, _, _, _)
ProcessLines(v, rts, hasCb, st, lines) ==
    IF lines = <<>> THEN st
    ELSE ProcessLines(v, rts, hasCb, LineStep(v, rts, hasCb, st, lines[1]), Tail(lines))

\* main.js: const lines = chunkBuffer.split('\n')
SplitLinesMain(buf) == Split(buf, {"\n"})
CarryOverDropped(lines) == <<>>
\* chunkBuffer = lines.pop() || ''
CarryOver(lines) == lines[Len(lines)]
\* the lines left in the array after pop()
CompleteLines(lines) == SubSeq(lines, 1, Len(lines) - 1)

\* part_000: rawResponseText.split(/(\r\n|\n|\r)/).  The captured separators
\* are pieces too; they trim to the empty string and are skipped like the
\* empty pieces, so only the pieces between line ends are kept here.
SplitLinesPart(text) == Split(text, {"\n", "\r"})

FinalPushWithEllipsis(v, rts, full) == applyRemoveTag(v, rts, full) \o Ellipsis
\* const finalResult = applyRemoveTag(fullContent)
FinalResult(v, rts, full) == applyRemoveTag(v, rts, full)

(* ------------------------------------------------------------------------ *)
(* Configuration and request assembly                                        *)
(* ------------------------------------------------------------------------ *)

\* config.model || 'gpt-4o-mini' (main.js) / 'gpt-3.5-turbo' (part_000);
\* config.model is left unset
Model(v) == IF v = "main" THEN "gpt-4o-mini" ELSE "gpt-3.5-turbo"

\* const messages = [{role: 'system', ...}, {role: 'user', ...}], by role
Messages == <<"system", "user">>

\* The values of config.parameters that are tried, and what JSON.parse makes
\* of each ("" is an unset option)
ParamsUnset    == ""
ParamsInvalid  == "{temperature"
ParamsOverride == "{\"model\": \"other\", \"messages\": [], \"stream\": false}"
ParameterStrings == {ParamsUnset, ParamsInvalid, ParamsOverride}

\* config.parameters || '{"temperature": 0.1}'
parametersString(cfgParameters) ==
    IF cfgParameters = "" THEN "{\"temperature\": 0.1}" ELSE cfgParameters

\* let parameters = <default>; try { parameters = JSON.parse(parametersString) } catch {}
ParsedParameters(v, str) ==
    IF str = "{\"temperature\": 0.1}" THEN [temperature |-> "0.1"]
    ELSE IF str = ParamsOverride
    THEN [model |-> "other", messages |-> <<>>, stream |-> FALSE]
    ELSE IF v = "main"
    THEN [temperature |-> "0.6", top_p |-> "0.99",
          frequency_penalty |-> "0", presence_penalty |-> "0"]
    ELSE [temperature |-> "0.1"]

\* { ...a, ...b }: the keys of b are written after those of a
Spread(a, b) == b @@ a

\* config.use_stream === 'true'
UseStream(cfg) == cfg.use_stream = "true"

\* main.js: if (useStream && setResult) { stream path } else { buffered path }
\* part_000: if (!useStream) { buffered } else { streaming }
StreamMode(v, cfg, hasCb) ==
    IF v = "main" THEN UseStream(cfg) /\ hasCb ELSE UseStream(cfg)

\* main.js:  { model, messages, ...parameters, stream: useStream && setResult != null }
\* part_000: { model, messages, stream: useStream, ...parameters }
RequestBody(v, cfg, hasCb) ==
    LET parameters == ParsedParameters(v, parametersString(cfg.parameters))
    IN  IF v = "main"
        THEN Spread(Spread([model |-> Model(v), messages |-> Messages], parameters),
                    [stream |-> (UseStream(cfg) /\ hasCb)])
        ELSE Spread([model |-> Model(v), messages |-> Messages,
                     stream |-> UseStream(cfg)], parameters)

MissingApiKeyOnly(cfg) == cfg.apiKey = ""
\* if (!apiKey) throw ...; if (!requestPath) throw ...
MissingConfig(cfg) == cfg.apiKey = "" \/ cfg.requestPath = ""

\* The values of config.requestPath that are tried
PathUnset   == ""
PathHost    == "api.example.com/v1"
PathNoHost  == "http://"
RequestPaths == {PathUnset, PathHost, PathNoHost}

\* main.js: new URL(requestPath) throws a TypeError for a URL without a host;
\* part_000 only concatenates strings
UrlConstructorThrows(v, path) == v = "main" /\ path = PathNoHost

(* ------------------------------------------------------------------------ *)
(* Responses of the remote service                                           *)
(* ------------------------------------------------------------------------ *)

\* A stream has at most MaxLines complete lines
MaxLines == 2
\* A chunk is at most MaxChunk characters long, or all that is left
MaxChunk == 3

Data(payload) == DataPrefixMain \o payload
Think      == <<"<", "t", "h", "i", "n", "k", ">">>
ThinkClose == <<"<", "/", "t", "h", "i", "n", "k", ">">>
HelpSelf   == <<"<", "h", "e", "l", "p", "/", ">">>

\* The lines a stream is made of (without their line end)
LineTemplates ==
    { Data(<<"{", "a", "}">>),                      \* a delta
      Data(<<"{">> \o Think \o <<"b", "}">>),        \* a delta opening a tag
      Data(<<"{">> \o ThinkClose \o <<"c", "}">>),   \* a delta closing it
      Data(DoneToken),                               \* the terminator
      Data(<<"{", "x">>),                            \* malformed JSON
      DataPrefixPart \o <<"{", "d", "}">>,           \* no space after the colon
      <<" ">> \o Data(<<"{", "e", "}">>),            \* white space before data:
      <<":", "k">>,                                  \* a comment line
      <<>>,                                          \* a blank line
      Data(<<"{", "}", "\r">>) }                     \* no content; CR before LF

\* What follows the last line end: nothing, or a data line cut short
Tails == { <<>>, Data(<<"{", "z", "}">>) }

RECURSIVE JoinLines(_)
JoinLines(ls) ==
    IF ls = <<>> THEN <<>> ELSE ls[1] \o <<"\n">> \o JoinLines(Tail(ls))

\* deltas "Hel", "lo", then [DONE]
HelloStream ==
    JoinLines(<< Data(<<"{", "H", "e", "l", "}">>),
                 Data(<<"{", "l", "o", "}">>),
                 Data(DoneToken) >>)

StreamTexts ==
    { JoinLines(ls) \o t :
        ls \in UNION { [1..n -> LineTemplates] : n \in 0..MaxLines }, t \in Tails }
    \cup { HelloStream }

Hello == <<"H", "e", "l", "l", "o">>
\* "<think>ignore</think>Hello<help/>"
TaggedHello ==
    Think \o <<"i", "g", "n", "o", "r", "e">> \o ThinkClose \o Hello \o HelpSelf

\* choices[0].message.content of a buffered completion
Contents ==
    { TaggedHello,
      Hello,
      <<" ">> \o Hello \o <<"\n">>,
      Think \o <<"a", "\n", "b">> \o ThinkClose \o <<" ">> \o Hello,
      Think \o Hello,
      HelpSelf }

\* The body of a failed request
ErrorBodies == { <<"{", "e", "}">>, <<"o", "o", "p", "s">>, <<>> }

OkStatuses == {200}
ErrorStatuses == {401, 500}

NoResponse == [status |-> 0, kind |-> "none", text |-> <<>>]

\* kind "sse": a stream body; "nobody": response.body is null;
\* "completion": {choices:[{message:{content}}]}; "malformed": no such field;
\* "error": the body of a failed request
StreamResponses ==
    { [status |-> s, kind |-> "sse", text |-> t] : s \in OkStatuses, t \in StreamTexts }
    \cup { [status |-> s, kind |-> "nobody", text |-> <<>>] : s \in OkStatuses }
    \cup { [status |-> s, kind |-> "error", text |-> b] :
             s \in ErrorStatuses, b \in ErrorBodies }

BufferedResponses ==
    { [status |-> s, kind |-> "completion", text |-> c] : s \in OkStatuses, c \in Contents }
    \cup { [status |-> s, kind |-> "malformed", text |-> <<>>] : s \in OkStatuses }
    \cup { [status |-> s, kind |-> "error", text |-> b] :
             s \in ErrorStatuses, b \in ErrorBodies }

AnyStatusOk(status) == TRUE
\* response.ok
ResponseOk(status) == status >= 200 /\ status <= 299

NoDetails == [form |-> "none", body |-> <<>>]
NoError == [kind |-> "none", status |-> 0, details |-> NoDetails, wrapper |-> "none"]

\* The Details: part of the "API Request Failed" message: which text it is
\* made from and how
ErrorDetails(v, stream, body) ==
    IF v = "main"
    THEN IF stream
         THEN \* JSON.stringify(parsed body), or of the raw text when it is not JSON
              [form |-> IF JsonParses(body) THEN "json" ELSE "quoted", body |-> body]
         ELSE \* JSON.stringify(res.data)
              [form |-> "json", body |-> body]
    ELSE IF body = <<>>
         THEN \* JSON.parse('{}'), then JSON.stringify(response.data)
              [form |-> "quoted", body |-> body]
    ELSE IF stream
         THEN \* JSON.parse(response.data), then errorData.error || response.data
              IF JsonParses(body)
              THEN [form |-> IF DeltaContent(body) # <<>> THEN "error_field" ELSE "quoted",
                    body |-> body]
              ELSE [form |-> "raw", body |-> body]
         ELSE \* response.data is not a string: JSON.parse throws, the raw
              \* value is put into the message
              [form |-> "raw", body |-> body]

ApiError(v, stream, resp) ==
    [kind |-> "api", status |-> resp.status,
     details |-> ErrorDetails(v, stream, resp.text),
     wrapper |-> IF v = "main" /\ stream THEN "Streaming Error" ELSE "none"]

Failure(kind, wrapper) ==
    [kind |-> kind, status |-> 0, details |-> NoDetails, wrapper |-> wrapper]

(* ------------------------------------------------------------------------ *)
(* The state of one call of translate()                                      *)
(* ------------------------------------------------------------------------ *)

VARIABLES
    variant,         \* which of the two files runs: "main" or "part"
    config,          \* options.config
    hasSetResult,    \* options.setResult is supplied
    httpUtils,       \* utils.http with fetch, Body and ResponseType (part_000)
    pc,              \* "start", "fetching", "reading", "delay", "done", "failed"
    requestBody,     \* the JSON body handed to fetch
    fetchCalls,      \* number of calls of the fetch primitive
    response,        \* what fetch resolved to
    source,          \* the part of the stream body the reader has not delivered yet
    chunkBuffer,     \* main.js: the carried-over partial line
    fullContent,     \* fullContent (main.js) / accumulatedResult (part_000)
    setResultCalls,  \* the arguments of the calls of setResult, in order
    linesDecoded,    \* number of stream payloads handed to JSON.parse
    result,          \* the returned string, once pc = "done"
    error            \* the thrown value, once pc = "failed"

vars == << variant, config, hasSetResult, httpUtils, pc, requestBody, fetchCalls,
           response, source, chunkBuffer, fullContent, setResultCalls,
           linesDecoded, result, error >>

inputs == << variant, config, hasSetResult, httpUtils >>
decoder == << source, chunkBuffer, fullContent, linesDecoded >>

Configs ==
    [ apiKey       : {"", "sk-key"},
      requestPath  : RequestPaths,
      use_stream   : {"true", "false"},
      parameters   : ParameterStrings,
      removeTag    : {<<>>} ]

NoBody == [k \in {} |-> ""]

Init ==
    /\ variant \in {"main", "part"}
    /\ config \in Configs
    /\ hasSetResult \in BOOLEAN
    /\ httpUtils \in (IF variant = "part" THEN BOOLEAN ELSE {TRUE})
    /\ pc = "start"
    /\ requestBody = NoBody
    /\ fetchCalls = 0
    /\ response = NoResponse
    /\ source = <<>>
    /\ chunkBuffer = <<>>
    /\ fullContent = <<>>
    /\ setResultCalls = <<>>
    /\ linesDecoded = 0
    /\ result = <<>>
    /\ error = NoError

rts == RemoveTagString(config.removeTag)
streamMode == StreamMode(variant, config, hasSetResult)

Fail(e) ==
    /\ pc' = "failed"
    /\ error' = e

\* translate() from its first statement to the first await: validation,
\* request assembly, the call of fetch
Start ==
    /\ pc = "start"
    /\ IF variant = "part" /\ ~httpUtils
       THEN Fail(Failure("utils", "none")) /\ UNCHANGED << requestBody, fetchCalls >>
       ELSE IF MissingConfig(config)
       THEN Fail(Failure("config", "none")) /\ UNCHANGED << requestBody, fetchCalls >>
       ELSE IF UrlConstructorThrows(variant, config.requestPath)
       THEN Fail(Failure("url", "none")) /\ UNCHANGED << requestBody, fetchCalls >>
       ELSE /\ requestBody' = RequestBody(variant, config, hasSetResult)
            /\ fetchCalls' = fetchCalls + 1
            /\ pc' = "fetching"
            /\ error' = error
    /\ UNCHANGED << inputs, response, decoder, setResultCalls, result >>

\* fetch rejects: no response at all
FetchRejects ==
    /\ pc = "fetching"
    /\ Fail(Failure("network",
                    IF variant = "part" THEN "none"
                    ELSE IF streamMode THEN "Streaming Error"
                    ELSE "Network or Fetch Error"))
    /\ UNCHANGED << inputs, requestBody, fetchCalls, response, decoder,
                    setResultCalls, result >>

\* main.js, stream path: the response arrives; status and body checks, then
\* the first reader.read() is awaited
MainStreamResponse ==
    /\ pc = "fetching"
    /\ variant = "main"
    /\ streamMode
    /\ \E resp \in StreamResponses :
         /\ response' = resp
         /\ IF ~ResponseOk(resp.status)
            THEN Fail(ApiError(variant, TRUE, resp)) /\ source' = source
            ELSE IF resp.kind = "nobody"
            THEN Fail(Failure("nullbody", "Streaming Error")) /\ source' = source
            ELSE /\ pc' = "reading"
                 /\ source' = resp.text
                 /\ error' = error
    /\ UNCHANGED << inputs, requestBody, fetchCalls, chunkBuffer, fullContent,
                    linesDecoded, setResultCalls, result >>

\* The chunk lengths that are tried when s is left of the stream
ChunkLengths(s) == { n \in 1..Len(s) : n <= MaxChunk \/ n = Len(s) }

\* main.js: reader.read() resolves with a chunk (a non-empty prefix of what
\* is left); the chunk is decoded and its complete lines are processed
MainReadChunk ==
    /\ pc = "reading"
    /\ source # <<>>
    /\ \E n \in ChunkLengths(source) :
         \E lines \in { SplitLinesMain(chunkBuffer \o SubSeq(source, 1, n)) } :
         \E st \in { ProcessLines(variant, rts, hasSetResult,
                                  LoopState(fullContent, setResultCalls, linesDecoded),
                                  CompleteLines(lines)) } :
             /\ source' = Substring(source, n)
             /\ chunkBuffer' = CarryOver(lines)
             /\ fullContent' = st.full
             /\ setResultCalls' = st.calls
             /\ linesDecoded' = st.decoded
    /\ UNCHANGED << inputs, pc, requestBody, fetchCalls, response, result, error >>

\* main.js: reader.read() resolves with done; the final push and the return
MainReadDone ==
    /\ pc = "reading"
    /\ source = <<>>
    /\ LET finalResult == FinalResult(variant, rts, fullContent)
       IN  /\ setResultCalls' = Append(setResultCalls, finalResult)
           /\ result' = finalResult
    /\ pc' = "done"
    /\ UNCHANGED << inputs, requestBody, fetchCalls, response, decoder, error >>

\* res.data.choices[0].message.content is present and not empty
HasContent(resp) == resp.kind = "completion" /\ resp.text # <<>>

\* main.js, buffered path: the response of tauriFetch arrives
MainBufferedResponse ==
    /\ pc = "fetching"
    /\ variant = "main"
    /\ ~streamMode
    /\ \E resp \in BufferedResponses :
         /\ response' = resp
         /\ IF ~ResponseOk(resp.status)
            THEN Fail(ApiError(variant, FALSE, resp)) /\ result' = result
            ELSE IF ~HasContent(resp)
            THEN Fail(Failure("structure", "none")) /\ result' = result
            ELSE /\ result' = applyRemoveTag(variant, rts, Trim(resp.text))
                 /\ pc' = "done"
                 /\ error' = error
    /\ UNCHANGED << inputs, requestBody, fetchCalls, decoder, setResultCalls >>

\* part_000: the response of http.fetch arrives; everything up to the return,
\* or up to the delay that follows the final push
PartResponse ==
    /\ pc = "fetching"
    /\ variant = "part"
    /\ \E resp \in (IF streamMode THEN StreamResponses ELSE BufferedResponses) :
         /\ response' = resp
         /\ IF ~ResponseOk(resp.status)
            THEN /\ Fail(ApiError(variant, streamMode, resp))
                 /\ UNCHANGED << fullContent, linesDecoded, setResultCalls, result >>
            ELSE IF resp.kind = "nobody"
            THEN \* response.data is null: rawResponseText.split throws a
                 \* TypeError, which the catch block throws again
                 /\ Fail(Failure("nullbody", "none"))
                 /\ UNCHANGED << fullContent, linesDecoded, setResultCalls, result >>
            ELSE IF ~streamMode
            THEN IF ~HasContent(resp)
                 THEN /\ Fail(Failure("structure", "none"))
                      /\ UNCHANGED << fullContent, linesDecoded, setResultCalls, result >>
                 ELSE LET finalResult == applyRemoveTag(variant, rts, Trim(resp.text))
                      IN  /\ setResultCalls' = IF hasSetResult
                                               THEN Append(setResultCalls, finalResult)
                                               ELSE setResultCalls
                          /\ result' = finalResult
                          /\ pc' = "done"
                          /\ UNCHANGED << fullContent, linesDecoded, error >>
            ELSE \E st \in { ProcessLines(variant, rts, hasSetResult,
                                          LoopState(fullContent, setResultCalls, linesDecoded),
                                          SplitLinesPart(resp.text)) } :
                 \E finalResult \in { FinalResult(variant, rts, st.full) } :
                     /\ fullContent' = st.full
                     /\ linesDecoded' = st.decoded
                     /\ error' = error
                     /\ IF finalResult = <<>> /\ st.full = <<>>
                        THEN \* return ""
                             /\ setResultCalls' = st.calls
                             /\ result' = <<>>
                             /\ pc' = "done"
                        ELSE IF hasSetResult
                        THEN \* setResult(finalResult); await the 50 ms delay
                             /\ setResultCalls' = Append(st.calls, finalResult)
                             /\ result' = result
                             /\ pc' = "delay"
                        ELSE /\ setResultCalls' = st.calls
                             /\ result' = finalResult
                             /\ pc' = "done"
    /\ UNCHANGED << inputs, requestBody, fetchCalls, source, chunkBuffer >>

\* part_000: the delay after the final push is over; return finalResult
PartDelayElapsed ==
    /\ pc = "delay"
    /\ result' = FinalResult(variant, rts, fullContent)
    /\ pc' = "done"
    /\ UNCHANGED << inputs, requestBody, fetchCalls, response, decoder,
                    setResultCalls, error >>

Next ==
    \/ Start
    \/ FetchRejects
    \/ MainStreamResponse
    \/ MainReadChunk
    \/ MainReadDone
    \/ MainBufferedResponse
    \/ PartResponse
    \/ PartDelayElapsed

Spec == Init /\ [][Next]_vars

(* ------------------------------------------------------------------------ *)
(* Vocabulary of the properties                                              *)
(* ------------------------------------------------------------------------ *)

Last(q) == q[Len(q)]

\* p occurs somewhere in s
Contains(s, p) == IndexOfFrom(s, p, 1) # 0

EndsWith(q, suffix) ==
    Len(q) >= Len(suffix) /\ SubSeq(q, Len(q) - Len(suffix) + 1, Len(q)) = suffix

\* A stream body arrived with a success status
Streaming == response.kind = "sse"

\* What the reader has delivered so far
Consumed == SubSeq(response.text, 1, Len(response.text) - Len(source))

\* The lines of a text that are ended by a line feed
TerminatedLines(text) ==
    LET pieces == Split(text, {"\n"}) IN SubSeq(pieces, 1, Len(pieces) - 1)

\* The lines the variant's loop iterates over, given the whole text
LinesOf(v, text) ==
    IF v = "main" THEN TerminatedLines(text) ELSE Split(text, {"\n", "\r"})

\* The delta contents of the lines, in order, by the variant's own line decoder
RECURSIVE DeltasOfLines(_, _)
DeltasOfLines(v, lines) ==
    IF lines = <<>> THEN <<>>
    ELSE LineOutcome(v, lines[1]).content \o DeltasOfLines(v, Tail(lines))

\* The lines before the first [DONE] line
RECURSIVE LinesBeforeDone(_, _)
LinesBeforeDone(v, lines) ==
    IF lines = <<>> THEN <<>>
    ELSE IF LineOutcome(v, lines[1]).kind = "done" THEN <<>>
    ELSE <<lines[1]>> \o LinesBeforeDone(v, Tail(lines))

\* The lines whose payload does not make JSON.parse throw
RECURSIVE WellFormedLines(_, _)
WellFormedLines(v, lines) ==
    IF lines = <<>> THEN <<>>
    ELSE (IF LineOutcome(v, lines[1]).kind = "parse_error" THEN <<>> ELSE <<lines[1]>>)
         \o WellFormedLines(v, Tail(lines))

\* What the variant's loop accumulates from the lines
AccumulatedFrom(v, lines) ==
    ProcessLines(v, DefaultRemoveTag, FALSE, LoopState(<<>>, <<>>, 0), lines).full

\* A line as the specification reads it: trimmed, then the data: prefix,
\* then the trimmed remainder
SpecLineOutcome(line) ==
    LET t == Trim(line)
    IN  IF StartsWith(t, <<"d", "a", "t", "a", ":">>)
        THEN PayloadOutcome(Trim(Substring(t, 5)))
        ELSE [kind |-> "ignored", content |-> <<>>]

\* The deltas of the lines as the specification reads them; stopAtDone says
\* whether the variant leaves the loop at [DONE]
RECURSIVE SpecDeltas(_, _)
SpecDeltas(lines, stopAtDone) ==
    IF lines = <<>> THEN <<>>
    ELSE IF stopAtDone /\ SpecLineOutcome(lines[1]).kind = "done" THEN <<>>
    ELSE SpecLineOutcome(lines[1]).content \o SpecDeltas(Tail(lines), stopAtDone)

\* s holds an opening tag and, after it, its closing tag
FirstOpen(s, open) == IndexOfFrom(s, open, 1)
FirstClose(s, open, close) ==
    IF FirstOpen(s, open) = 0 THEN 0
    ELSE IndexOfFrom(s, close, FirstOpen(s, open) + Len(open))
HasPair(s, open, close) == FirstClose(s, open, close) # 0
\* from the first opening tag to the end of the first closing tag after it
FirstSpan(s, open, close) ==
    SubSeq(s, FirstOpen(s, open), FirstClose(s, open, close) + Len(close) - 1)

(* ------------------------------------------------------------------------ *)
(* Properties                                                                *)
(* ------------------------------------------------------------------------ *)

\* C1: with apiKey or requestPath missing the call fails before any network
\* access: once it has left its start it has failed, fetch was never called
\* and setResult was never called.
C1_NoNetworkWithoutConfig ==
    (config.apiKey = "" \/ config.requestPath = "")
        => /\ fetchCalls = 0
           /\ setResultCalls = <<>>
           /\ pc \in {"start", "failed"}
           /\ pc = "failed" => error.kind \in {"config", "utils"}

C1_Witness ==
    /\ pc = "failed"
    /\ error.kind = "config"
    /\ config.apiKey # ""
    /\ config.requestPath = ""
    /\ fetchCalls = 0

\* C2 (as claimed): when the stream holds a [DONE] line, the accumulated text
\* is built only from the deltas of the data lines before the first [DONE].
C2_ContentAfterDoneDiscarded ==
    (pc = "done" /\ Streaming)
        => fullContent =
             DeltasOfLines(variant, LinesBeforeDone(variant, LinesOf(variant, response.text)))

\* C3 (as claimed): a buffered completion is returned with every paired and
\* self-closing form of the configured tags removed; "<think>ignore</think>
\* Hello<help/>" comes back as "Hello", in both variants.
C3_TagsStripped ==
    (pc = "done" /\ response.kind = "completion")
        => /\ response.text = TaggedHello => result = Hello
           /\ ~Contains(result, HelpSelf)
           /\ ~HasPair(result, Think, ThinkClose)

C5_MalformedLineSkipped ==
    /\ (Streaming /\ pc \in {"delay", "done"})
          => fullContent =
               AccumulatedFrom(variant,
                               WellFormedLines(variant, LinesOf(variant, response.text)))
    /\ Streaming => pc # "failed"

C5_Witness ==
    /\ pc = "done"
    /\ response.text = JoinLines(<< Data(<<"{", "x">>), Data(<<"{", "a", "}">>) >>)
    /\ linesDecoded = 2
    /\ fullContent = <<"a">>

\* C6 (as claimed): the request body handed to fetch has the model, the two
\* messages (system first) and the stream flag computed by translate,
\* whatever the parameters option holds.
C6_StructuralKeysKept ==
    fetchCalls > 0
        => /\ requestBody.model = Model(variant)
           /\ requestBody.messages = <<"system", "user">>
           /\ requestBody.stream = (config.use_stream = "true"
                                    /\ (variant = "main" => hasSetResult))

\* C7: a response with a status outside 200..299 makes the call fail with
\* the status code and details made from the response body; nothing is
\* returned, no stream line is decoded, setResult is never called.
C7_HttpErrorFails ==
    (response.kind # "none" /\ ~(response.status \in 200..299))
        => /\ pc = "failed"
           /\ error.kind = "api"
           /\ error.status = response.status
           /\ error.details.body = response.text
           /\ error.details.form # "none"
           /\ result = <<>>
           /\ fullContent = <<>>
           /\ linesDecoded = 0
           /\ setResultCalls = <<>>

C7_Witness ==
    /\ pc = "failed"
    /\ streamMode
    /\ hasSetResult
    /\ response.status = 401
    /\ error.kind = "api"
    /\ error.status = 401
    /\ setResultCalls = <<>>

\* C8 (as claimed): a line is decoded exactly when, trimmed, it starts with
\* data: (with or without a space after the colon, with or without white
\* space before it); the accumulated text is made of the deltas of those
\* lines and of no other line.
C8_DataPrefixAfterTrim ==
    (pc = "done" /\ Streaming)
        => fullContent = SpecDeltas(LinesOf(variant, response.text), variant = "part")

\* C9 (as claimed): each push is made from the whole accumulated text; a tag
\* that is open and not yet closed is still in the pushed text, and once its
\* closing tag has arrived the span from the opening to the closing tag is in
\* no later push and not in the returned text.
C9_ClosedTagSpanAbsent ==
    (Streaming /\ hasSetResult /\ setResultCalls # <<>>)
        => /\ (Contains(fullContent, Think) /\ ~HasPair(fullContent, Think, ThinkClose))
                => Contains(Last(setResultCalls), Think)
           /\ HasPair(fullContent, Think, ThinkClose)
                => /\ ~Contains(Last(setResultCalls), FirstSpan(fullContent, Think, ThinkClose))
                   /\ pc = "done"
                        => ~Contains(result, FirstSpan(fullContent, Think, ThinkClose))

\* C10: in main.js the accumulated text does not depend on how the stream is
\* cut into chunks: at every point it is the deltas, in order and once each,
\* of the line-feed-terminated lines delivered so far, and the carry-over
\* buffer is the unterminated rest; at the end of the stream a trailing
\* fragment without line feed has contributed nothing.
C10_ChunkingIndependent ==
    (variant = "main" /\ Streaming /\ pc \in {"reading", "done"})
        => /\ fullContent = DeltasOfLines("main", TerminatedLines(Consumed))
           /\ chunkBuffer = Last(Split(Consumed, {"\n"}))
           /\ pc = "done" => Consumed = response.text

C10_Witness ==
    /\ variant = "main"
    /\ pc = "reading"
    /\ fullContent = <<"a">>
    /\ chunkBuffer = <<"d", "a", "t">>
    /\ source # <<>>

=============================================================================
